---------------------------- MODULE Spec2Model ----------------------------
(***************************************************************************)
(* The view-state machine of the ParentCaseImageViewer Lightning Web       *)
(* Component (parentCaseImageViewer.js): the wired image query, image      *)
(* navigation, zoom and pan.                                               *)
(*                                                                         *)
(* Numbers.  zoomLevel, minZoom, maxZoom and zoomStep are kept in percent  *)
(* (1 -> 100, 4 -> 400, 0.25 -> 25): every value the code computes is a    *)
(* multiple of 0.25, which IEEE doubles add and subtract exactly, so the   *)
(* percent integers are an exact image of the JavaScript numbers.  With    *)
(* that scale "100 * zoomLevel" (the pan limit, in pixels) is the percent  *)
(* value itself.  Pointer coordinates and pan offsets are whole pixels.    *)
(***************************************************************************)
EXTENDS Integers, Sequences, FiniteSets, TLC

VARIABLES
    recordId,           \* @api recordId (Null while absent)
    images,             \* this.images
    currentImageIndex,  \* this.currentImageIndex
    errorMessage,       \* this.errorMessage
    isLoading,          \* this.isLoading
    hasParentCase,      \* this.hasParentCase
    zoomLevel,          \* this.zoomLevel, in percent
    panX,               \* this.panX
    panY,               \* this.panY
    isDragging,         \* this.isDragging
    dragStartX,         \* this.dragStartX
    dragStartY,         \* this.dragStartY
    pending,            \* the queries of the wire adapter still in flight, in issue order
    consoleErrors,      \* what the handler that ran last wrote with console.error
    shownFor            \* history: the caseId whose response wiredImages applied last

vars == <<recordId, images, currentImageIndex, errorMessage, isLoading,
          hasParentCase, zoomLevel, panX, panY, isDragging, dragStartX,
          dragStartY, pending, consoleErrors, shownFor>>

\* The fields of the component itself (everything but the environment and history).
fields == <<images, currentImageIndex, errorMessage, isLoading, hasParentCase,
            zoomLevel, panX, panY, isDragging, dragStartX, dragStartY>>

-----------------------------------------------------------------------------
(* Bounds of the model *)

(* Two specifications share the handlers and differ in the inputs they     *)
(* feed them.  Spec is wide in the wire adapter (two record ids and none,  *)
(* queries overtaking each other, image lists of every length up to        *)
(* MaxImages, either source flag) and keeps the pointer at one place, so   *)
(* that the pan offset stays at the origin.  SpecView is wide in the       *)
(* pointer (drags between two corners of the viewport at every zoom level) *)
(* and has the page show one record or none, changing it only when no      *)
(* query is in flight.                                                     *)

MaxImages == 3          \* Spec: longest image list a query returns
MaxPending == 2         \* Spec: most queries in flight at once
ViewMaxImages == 2      \* SpecView: longest image list a query returns

Null == "null"
RecordIds == {"A", "B"}                     \* Spec: the record ids the page shows
ViewRecordIds == {"A"}                      \* SpecView: the record id the page shows
Points == {<<50, 50>>}                      \* Spec: (clientX, clientY) of a mouse event
ViewPoints == {<<50, 50>>, <<500, 500>>}    \* SpecView: (clientX, clientY) of a mouse event
ViewFlags == {FALSE}                        \* SpecView: fromParentCase of a response
WheelDeltas == {-100, 0, 100}               \* deltaY of a wheel event

-----------------------------------------------------------------------------
(* Program constants *)

minZoom == 100
maxZoom == 400
zoomStep == 25

NoError == ""
LoadErrorMessage == "Error loading images. Please refresh the page."
ImageErrorMessage == "Unable to display this image. It may be in an unsupported format."

Min(a, b) == IF a < b THEN a ELSE b
Max(a, b) == IF a > b THEN a ELSE b

-----------------------------------------------------------------------------
(* Getters *)

isMaxZoom == zoomLevel >= maxZoom
isMinZoom == zoomLevel <= minZoom
hasImages == ~isLoading /\ Len(images) > 0 /\ errorMessage = NoError
showNoImagesMessage == ~isLoading /\ Len(images) = 0 /\ errorMessage = NoError
isFirstImage == currentImageIndex = 0
\* A slip in isLastImage: the index is compared with the length itself.
isLastImagePastEnd == currentImageIndex = Len(images)
isLastImage == currentImageIndex = Len(images) - 1
\* currentImageUrl is '' unless there is an image at currentImageIndex
hasCurrentImageUrl == Len(images) > 0 /\ currentImageIndex < Len(images)

-----------------------------------------------------------------------------
(* The initial state: the field initialisers of the class *)

Init ==
    /\ recordId = Null
    /\ images = <<>>
    /\ currentImageIndex = 0
    /\ errorMessage = NoError
    /\ isLoading = TRUE
    /\ hasParentCase = FALSE
    /\ zoomLevel = 100
    /\ panX = 0
    /\ panY = 0
    /\ isDragging = FALSE
    /\ dragStartX = 0
    /\ dragStartY = 0
    /\ pending = <<>>
    /\ consoleErrors = <<>>
    /\ shownFor = Null

-----------------------------------------------------------------------------
(* The handlers.  Each is the effect of the method on the fields it may     *)
(* assign; the events further down add the fields the method never touches. *)

\* resetZoomAndPan()
resetZoomAndPan ==
    /\ zoomLevel' = 100
    /\ panX' = 0
    /\ panY' = 0

\* What a resolution of the query for caseId can hand to wiredImages: data with
\* up to MaxImages images (the images of a case are named by the case), or an error.
ImageList(caseId, n) == [k \in 1..n |-> [Id |-> <<caseId, k>>]]

DataResponses(caseId, maxImages, flags) ==
    { [hasData |-> TRUE, images |-> ImageList(caseId, n), fromParentCase |-> fp,
       hasError |-> FALSE] : n \in 0..maxImages, fp \in flags }

ErrorResponse ==
    [hasData |-> FALSE, images |-> <<>>, fromParentCase |-> FALSE, hasError |-> TRUE]

\* A slip in the data branch: the selection is not moved back to the first image.
wiredImagesOnDataKeepsIndex(r) ==
    /\ images' = r.images
    /\ hasParentCase' = r.fromParentCase
    /\ errorMessage' = NoError
    /\ UNCHANGED <<currentImageIndex, zoomLevel, panX, panY>>
    /\ consoleErrors' = <<>>

\* A slip in the data branch: the first image is selected but shown with the zoom
\* and the pan of the image that was on display.
wiredImagesOnDataKeepsZoom(r) ==
    /\ images' = r.images
    /\ hasParentCase' = r.fromParentCase
    /\ errorMessage' = NoError
    /\ currentImageIndex' = IF Len(r.images) > 0 THEN 0 ELSE currentImageIndex
    /\ UNCHANGED <<zoomLevel, panX, panY>>
    /\ consoleErrors' = <<>>

\* wiredImages, the branch "if (data)"
wiredImagesOnData(r) ==
    /\ images' = r.images
    /\ hasParentCase' = r.fromParentCase
    /\ errorMessage' = NoError
    /\ IF Len(r.images) > 0
         THEN /\ currentImageIndex' = 0
              /\ resetZoomAndPan
         ELSE UNCHANGED <<currentImageIndex, zoomLevel, panX, panY>>
    /\ consoleErrors' = <<>>

\* A slip in the error branch: the image set is left as it was.
wiredImagesOnErrorKeepsImages ==
    /\ errorMessage' = LoadErrorMessage
    /\ hasParentCase' = FALSE
    /\ consoleErrors' = <<"Error loading images:">>
    /\ UNCHANGED <<images, currentImageIndex, zoomLevel, panX, panY>>

\* wiredImages, the branch "else if (error)"
wiredImagesOnError ==
    /\ errorMessage' = LoadErrorMessage
    /\ images' = <<>>
    /\ hasParentCase' = FALSE
    /\ consoleErrors' = <<"Error loading images:">>
    /\ UNCHANGED <<currentImageIndex, zoomLevel, panX, panY>>

\* wiredImages({ error, data })
wiredImages(r) ==
    /\ isLoading' = FALSE
    /\ IF r.hasData
         THEN wiredImagesOnData(r)
         ELSE IF r.hasError
           THEN wiredImagesOnError
           ELSE /\ consoleErrors' = <<>>
                /\ UNCHANGED <<images, hasParentCase, errorMessage,
                               currentImageIndex, zoomLevel, panX, panY>>

\* A slip in handlePrevious: the navigation wraps round to the last image.
handlePreviousCyclic ==
    /\ currentImageIndex' = IF currentImageIndex > 0
                              THEN currentImageIndex - 1
                              ELSE Max(Len(images) - 1, 0)
    /\ resetZoomAndPan

\* handlePrevious()
handlePrevious ==
    IF currentImageIndex > 0
      THEN /\ currentImageIndex' = currentImageIndex - 1
           /\ resetZoomAndPan
      ELSE UNCHANGED <<currentImageIndex, zoomLevel, panX, panY>>

\* A slip in handleNext: it refuses to move while an error message is set.
handleNextBlockedByError ==
    IF errorMessage = NoError /\ currentImageIndex < Len(images) - 1
      THEN /\ currentImageIndex' = currentImageIndex + 1
           /\ resetZoomAndPan
      ELSE UNCHANGED <<currentImageIndex, zoomLevel, panX, panY>>

\* A slip in handleNext: the zoom and the pan of the image left behind are kept.
handleNextKeepsView ==
    IF currentImageIndex < Len(images) - 1
      THEN /\ currentImageIndex' = currentImageIndex + 1
           /\ UNCHANGED <<zoomLevel, panX, panY>>
      ELSE UNCHANGED <<currentImageIndex, zoomLevel, panX, panY>>

\* handleNext()
handleNext ==
    IF currentImageIndex < Len(images) - 1
      THEN /\ currentImageIndex' = currentImageIndex + 1
           /\ resetZoomAndPan
      ELSE UNCHANGED <<currentImageIndex, zoomLevel, panX, panY>>

\* handleImageError(event)
handleImageError ==
    /\ consoleErrors' = <<"Error loading image:">>
    /\ errorMessage' = ImageErrorMessage

\* A slip in handleZoomIn: one step more, neither guarded nor clamped.
handleZoomInUnclamped ==
    /\ zoomLevel' = zoomLevel + zoomStep
    /\ UNCHANGED <<panX, panY>>

\* handleZoomIn()
handleZoomIn ==
    /\ zoomLevel' = IF zoomLevel < maxZoom
                      THEN Min(zoomLevel + zoomStep, maxZoom)
                      ELSE zoomLevel
    /\ UNCHANGED <<panX, panY>>

\* A slip in handleZoomOut: the pan is not reset on reaching the minimum.
handleZoomOutKeepsPan ==
    IF zoomLevel > minZoom
      THEN /\ zoomLevel' = Max(zoomLevel - zoomStep, minZoom)
           /\ UNCHANGED <<panX, panY>>
      ELSE UNCHANGED <<zoomLevel, panX, panY>>

\* A slip in handleZoomOut: the step is taken twice.
handleZoomOutDoubleStep ==
    IF zoomLevel > minZoom
      THEN LET z == Max(zoomLevel - 2 * zoomStep, minZoom) IN
           /\ zoomLevel' = z
           /\ IF z = minZoom
                THEN panX' = 0 /\ panY' = 0
                ELSE UNCHANGED <<panX, panY>>
      ELSE UNCHANGED <<zoomLevel, panX, panY>>

\* handleZoomOut()
handleZoomOut ==
    IF zoomLevel > minZoom
      THEN LET z == Max(zoomLevel - zoomStep, minZoom) IN
           /\ zoomLevel' = z
           /\ IF z = minZoom
                THEN panX' = 0 /\ panY' = 0
                ELSE UNCHANGED <<panX, panY>>
      ELSE UNCHANGED <<zoomLevel, panX, panY>>

\* A slip in handleResetZoom: it steps the zoom out once instead of resetting it.
handleResetZoomStepsOut == handleZoomOut

\* handleResetZoom()
handleResetZoom == resetZoomAndPan

\* handleWheel(event), event.deltaY = deltaY
handleWheel(deltaY) ==
    IF deltaY < 0 THEN handleZoomIn ELSE handleZoomOut

\* A slip in handleMouseDown: the drag starts at any zoom level.
handleMouseDownAnyZoom(x, y) ==
    /\ isDragging' = TRUE
    /\ dragStartX' = x - panX
    /\ dragStartY' = y - panY

\* handleMouseDown(event), event.clientX = x, event.clientY = y
handleMouseDown(x, y) ==
    IF zoomLevel > 100
      THEN /\ isDragging' = TRUE
           /\ dragStartX' = x - panX
           /\ dragStartY' = y - panY
      ELSE UNCHANGED <<isDragging, dragStartX, dragStartY>>

\* handleMouseUp()
handleMouseUp == isDragging' = FALSE

\* handleMouseLeave()
handleMouseLeave ==
    IF isDragging THEN handleMouseUp ELSE UNCHANGED isDragging

\* A slip in handleMouseMove: the limit of the pan forgets the zoom factor.
handleMouseMoveFixedLimit(x, y) ==
    IF isDragging /\ zoomLevel > 100
      THEN LET newPanX == x - dragStartX
               newPanY == y - dragStartY
               maxPan == 100
           IN /\ panX' = Max(-maxPan, Min(maxPan, newPanX))
              /\ panY' = Max(-maxPan, Min(maxPan, newPanY))
      ELSE UNCHANGED <<panX, panY>>

\* handleMouseMove(event), event.clientX = x, event.clientY = y
handleMouseMove(x, y) ==
    IF isDragging /\ zoomLevel > 100
      THEN LET newPanX == x - dragStartX
               newPanY == y - dragStartY
               maxPan == zoomLevel     \* 100 * this.zoomLevel, zoomLevel in percent
           IN /\ panX' = Max(-maxPan, Min(maxPan, newPanX))
              /\ panY' = Max(-maxPan, Min(maxPan, newPanY))
      ELSE UNCHANGED <<panX, panY>>

-----------------------------------------------------------------------------
(* The events: what the host page, the wire adapter and the user do.       *)
(* The wire adapter issues a query for every new non-null recordId and     *)
(* delivers the resolutions in any order; nothing in the component cancels *)
(* or filters a delivery.  The user acts on the image on display: the      *)
(* buttons, the wheel and the mouse reach a handler only while             *)
(* currentImageUrl names an image.  A handler that writes nothing with     *)
(* console.error leaves consoleErrors empty.                               *)

Without(s, i) == [k \in 1..(Len(s) - 1) |-> IF k < i THEN s[k] ELSE s[k + 1]]

SetRecordId(ids, maxPending) ==
    \E r \in ids :
        /\ r # recordId
        /\ r # Null => Len(pending) < maxPending
        /\ recordId' = r
        /\ pending' = IF r = Null THEN pending ELSE Append(pending, r)
        /\ consoleErrors' = <<>>
        /\ UNCHANGED <<fields, shownFor>>

QuerySucceeds(maxImages, flags) ==
    \E i \in 1..Len(pending) : \E r \in DataResponses(pending[i], maxImages, flags) :
        /\ wiredImages(r)
        /\ pending' = Without(pending, i)
        /\ shownFor' = pending[i]
        /\ UNCHANGED <<recordId, isDragging, dragStartX, dragStartY>>

QueryFails ==
    \E i \in 1..Len(pending) :
        /\ wiredImages(ErrorResponse)
        /\ pending' = Without(pending, i)
        /\ shownFor' = pending[i]
        /\ UNCHANGED <<recordId, isDragging, dragStartX, dragStartY>>

Previous ==
    /\ hasCurrentImageUrl
    /\ handlePrevious
    /\ consoleErrors' = <<>>
    /\ UNCHANGED <<recordId, images, errorMessage, isLoading, hasParentCase,
                   isDragging, dragStartX, dragStartY, pending, shownFor>>

\* A slip in the Next event: moving on also clears the error message.
NextImageClearsError ==
    /\ hasCurrentImageUrl
    /\ handleNext
    /\ consoleErrors' = <<>>
    /\ errorMessage' = NoError
    /\ UNCHANGED <<recordId, images, isLoading, hasParentCase, isDragging,
                   dragStartX, dragStartY, pending, shownFor>>

NextImage ==
    /\ hasCurrentImageUrl
    /\ handleNext
    /\ consoleErrors' = <<>>
    /\ UNCHANGED <<recordId, images, errorMessage, isLoading, hasParentCase,
                   isDragging, dragStartX, dragStartY, pending, shownFor>>

\* A slip in the image error handling: the image set is cleared, as the error
\* branch of wiredImages does.
ImageRenderFailureClearsImages ==
    /\ hasCurrentImageUrl
    /\ handleImageError
    /\ images' = <<>>
    /\ hasParentCase' = FALSE
    /\ UNCHANGED <<recordId, currentImageIndex, isLoading, zoomLevel, panX, panY,
                   isDragging, dragStartX, dragStartY, pending, shownFor>>

\* The error event of the <img>.
ImageRenderFailure ==
    /\ hasCurrentImageUrl
    /\ handleImageError
    /\ UNCHANGED <<recordId, images, currentImageIndex, isLoading, hasParentCase,
                   zoomLevel, panX, panY, isDragging, dragStartX, dragStartY,
                   pending, shownFor>>

ZoomIn ==
    /\ hasCurrentImageUrl
    /\ handleZoomIn
    /\ consoleErrors' = <<>>
    /\ UNCHANGED <<recordId, images, currentImageIndex, errorMessage, isLoading,
                   hasParentCase, isDragging, dragStartX, dragStartY, pending,
                   shownFor>>

ZoomOut ==
    /\ hasCurrentImageUrl
    /\ handleZoomOut
    /\ consoleErrors' = <<>>
    /\ UNCHANGED <<recordId, images, currentImageIndex, errorMessage, isLoading,
                   hasParentCase, isDragging, dragStartX, dragStartY, pending,
                   shownFor>>

ResetZoom ==
    /\ hasCurrentImageUrl
    /\ handleResetZoom
    /\ consoleErrors' = <<>>
    /\ UNCHANGED <<recordId, images, currentImageIndex, errorMessage, isLoading,
                   hasParentCase, isDragging, dragStartX, dragStartY, pending,
                   shownFor>>

Wheel ==
    \E deltaY \in WheelDeltas :
        /\ hasCurrentImageUrl
        /\ handleWheel(deltaY)
        /\ consoleErrors' = <<>>
        /\ UNCHANGED <<recordId, images, currentImageIndex, errorMessage, isLoading,
                   hasParentCase, isDragging, dragStartX, dragStartY, pending,
                   shownFor>>

\* A mousedown at the point p
DragStartAt(p) ==
    /\ hasCurrentImageUrl
    /\ handleMouseDown(p[1], p[2])
    /\ consoleErrors' = <<>>
    /\ UNCHANGED <<recordId, images, currentImageIndex, errorMessage, isLoading,
                   hasParentCase, zoomLevel, panX, panY, pending, shownFor>>

DragStart(points) == \E p \in points : DragStartAt(p)

\* A mousemove to the point p
DragMoveAt(p) ==
    /\ hasCurrentImageUrl
    /\ handleMouseMove(p[1], p[2])
    /\ consoleErrors' = <<>>
    /\ UNCHANGED <<recordId, images, currentImageIndex, errorMessage, isLoading,
                   hasParentCase, zoomLevel, isDragging, dragStartX, dragStartY,
                   pending, shownFor>>

DragMove(points) == \E p \in points : DragMoveAt(p)

DragEnd ==
    /\ hasCurrentImageUrl
    /\ handleMouseUp
    /\ consoleErrors' = <<>>
    /\ UNCHANGED <<recordId, images, currentImageIndex, errorMessage, isLoading,
                   hasParentCase, zoomLevel, panX, panY, dragStartX, dragStartY,
                   pending, shownFor>>

PointerLeave ==
    /\ hasCurrentImageUrl
    /\ handleMouseLeave
    /\ consoleErrors' = <<>>
    /\ UNCHANGED <<recordId, images, currentImageIndex, errorMessage, isLoading,
                   hasParentCase, zoomLevel, panX, panY, dragStartX, dragStartY,
                   pending, shownFor>>

-----------------------------------------------------------------------------
(* The specifications *)

Next ==
    \/ SetRecordId(RecordIds \cup {Null}, MaxPending)
    \/ QuerySucceeds(MaxImages, BOOLEAN)
    \/ QueryFails
    \/ Previous
    \/ NextImage
    \/ ImageRenderFailure
    \/ ZoomIn
    \/ ZoomOut
    \/ ResetZoom
    \/ Wheel
    \/ DragStart(Points)
    \/ DragMove(Points)
    \/ DragEnd
    \/ PointerLeave

Spec == Init /\ [][Next]_vars

NextView ==
    \/ (pending = <<>> /\ SetRecordId(ViewRecordIds \cup {Null}, MaxPending))
    \/ QuerySucceeds(ViewMaxImages, ViewFlags)
    \/ QueryFails
    \/ Previous
    \/ NextImage
    \/ ImageRenderFailure
    \/ ZoomIn
    \/ ZoomOut
    \/ ResetZoom
    \/ Wheel
    \/ DragStart(ViewPoints)
    \/ DragMove(ViewPoints)
    \/ DragEnd
    \/ PointerLeave

SpecView == Init /\ [][NextView]_vars

-----------------------------------------------------------------------------
(* The four states of the viewer, read off the fields as the getters do *)

StateLoading == isLoading
StateError == ~isLoading /\ Len(images) = 0 /\ errorMessage # NoError
StateEmpty == showNoImagesMessage
StateViewing == hasImages

Count(b) == IF b THEN 1 ELSE 0

-----------------------------------------------------------------------------
(* C1 *)

\* C1: stale-response law.  Once every response has been delivered, what is
\* displayed (the image set and the response it came from) belongs to the latest
\* requested record id, which is recordId whenever recordId is not null; a late
\* delivery for an older id does not overwrite it.
StaleResponseLaw ==
    (pending = <<>> /\ recordId # Null) =>
        /\ shownFor = recordId
        /\ \A k \in 1..Len(images) : images[k].Id[1] = recordId

-----------------------------------------------------------------------------
(* C2 *)

\* C2: in every reachable state panX and panY lie within
\* [-100 * zoomLevel, 100 * zoomLevel] for the current zoomLevel.
PanWithinCurrentZoom ==
    /\ -zoomLevel <= panX /\ panX <= zoomLevel
    /\ -zoomLevel <= panY /\ panY <= zoomLevel

-----------------------------------------------------------------------------
(* C3 *)

\* C3: in every reachable state zoomLevel is in [1, 4] and of the form
\* 1 + 0.25 * k for an integer k in 0..12.
ZoomOnGrid ==
    /\ minZoom <= zoomLevel /\ zoomLevel <= maxZoom
    /\ \E k \in 0..12 : zoomLevel = 100 + 25 * k

\* Thirteen or more ZoomIn steps were taken, in the middle of a drag over a loaded
\* image set: the zoom stands at the maximum.
ZoomOnGridWitness ==
    /\ zoomLevel = 400
    /\ isDragging
    /\ hasImages

-----------------------------------------------------------------------------
(* C4 *)

\* C4: in every reachable state, zoomLevel = 1 (minZoom) implies panX = 0 and
\* panY = 0.
MinZoomPanOrigin ==
    zoomLevel = minZoom => (panX = 0 /\ panY = 0)

\* A drag was started while the image was panned away from the origin (the anchor
\* is not the pointer position itself), and the zoom has come back to the minimum
\* during that drag.
MinZoomPanOriginWitness ==
    /\ zoomLevel = minZoom
    /\ isDragging
    /\ \A p \in ViewPoints : dragStartX # p[1] /\ dragStartY # p[2]
    /\ panX = 0 /\ panY = 0

-----------------------------------------------------------------------------
(* C5 *)

\* C5: in every reachable state where the image set is non-empty,
\* 0 <= currentImageIndex < images.length.
IndexInRange ==
    Len(images) > 0 => (0 <= currentImageIndex /\ currentImageIndex < Len(images))

\* Next has reached the last image of a three-image set while another query is in
\* flight, whose resolution may replace the set by a shorter one.
IndexInRangeWitness ==
    /\ Len(images) = 3
    /\ currentImageIndex = Len(images) - 1
    /\ pending # <<>>

-----------------------------------------------------------------------------
(* C6 *)

\* C6: whenever a step changes currentImageIndex, the state after that step has
\* zoomLevel = 1 and pan = (0, 0).
IndexChangeResetsView ==
    [][currentImageIndex' # currentImageIndex =>
          (zoomLevel' = minZoom /\ panX' = 0 /\ panY' = 0)]_vars

\* The second image is selected at minimum zoom and origin while a drag is still
\* open, one that was started above minimum zoom on a panned image (the anchor is
\* not the pointer position itself).
IndexChangeResetsViewWitness ==
    /\ currentImageIndex = 1
    /\ isDragging
    /\ \A p \in ViewPoints : dragStartX # p[1] /\ dragStartY # p[2]
    /\ zoomLevel = minZoom
    /\ panX = 0 /\ panY = 0

-----------------------------------------------------------------------------
(* C7 *)

\* C7: Previous at index 0 and Next at index images.length - 1 are no-ops: they
\* leave currentImageIndex, zoomLevel, pan and every other field of the
\* component, the record id and the queries in flight unchanged.
BoundaryPressIsNoOp ==
    [][((Previous /\ currentImageIndex = 0)
          \/ (NextImage /\ currentImageIndex = Len(images) - 1))
         => UNCHANGED <<fields, recordId, pending>>]_vars

\* The last of three images is selected and zoomed in on: a Next pressed here is
\* the boundary press.
BoundaryPressWitness ==
    /\ Len(images) = 3
    /\ currentImageIndex = 2
    /\ zoomLevel > minZoom

-----------------------------------------------------------------------------
(* C8 *)

\* C8: when a query fails the resulting state is Error: the image set is empty, an
\* error message is recorded, the component is not loading, exactly one log entry
\* is written for the failure, and no query is issued (the failed one leaves the
\* queries in flight, nothing joins them).
QueryFailureEffect ==
    [][QueryFails =>
          /\ StateError'
          /\ images' = <<>>
          /\ errorMessage' # NoError
          /\ ~isLoading'
          /\ Len(consoleErrors') = 1
          /\ Len(pending') = Len(pending) - 1
          /\ recordId' = recordId]_vars

\* A failure has just been delivered and logged; it cleared a set of three images
\* (the index still points at the third).
QueryFailureWitness ==
    /\ errorMessage = LoadErrorMessage
    /\ consoleErrors = <<"Error loading images:">>
    /\ images = <<>>
    /\ currentImageIndex = 2

-----------------------------------------------------------------------------
(* C9 *)

\* C9: in every reachable state the component is in exactly one of the four
\* states Loading, Error, Empty, Viewing.
ExactlyOneState ==
    Count(StateLoading) + Count(StateError) + Count(StateEmpty)
        + Count(StateViewing) = 1

-----------------------------------------------------------------------------
(* C10 *)

\* C10: whenever a query is in flight the component is in the Loading state:
\* isLoading is true and neither hasImages nor showNoImagesMessage holds.
InFlightImpliesLoading ==
    pending # <<>> => (isLoading /\ ~hasImages /\ ~showNoImagesMessage)

-----------------------------------------------------------------------------
(* C11 *)

\* C11: while recordId is null and no query was ever issued, the component is in
\* the Empty-equivalent state: not loading, no error message, zero images
\* (showNoImagesMessage holds).
NullRecordIsEmpty ==
    (recordId = Null /\ pending = <<>> /\ shownFor = Null) =>
        (~isLoading /\ errorMessage = NoError /\ Len(images) = 0
            /\ showNoImagesMessage)

-----------------------------------------------------------------------------
(* C12 *)

\* A second ResetZoom would change no field of the component.
ResetZoomChangesNothing == ~ENABLED (ResetZoom /\ fields' # fields)

\* C12: ResetZoom is idempotent.  Every ResetZoom step ends with zoomLevel = 1 and
\* pan = (0, 0), leaves every other field as it was, and ends in a state in which
\* a second ResetZoom changes nothing.
ResetZoomIdempotent ==
    [][ResetZoom =>
          /\ zoomLevel' = minZoom /\ panX' = 0 /\ panY' = 0
          /\ UNCHANGED <<images, currentImageIndex, errorMessage, isLoading,
                         hasParentCase, isDragging, dragStartX, dragStartY>>
          /\ ResetZoomChangesNothing']_vars

\* The first of two images stands at minimum zoom and at the origin after it had
\* been zoomed and panned (a drag started on the panned image is still open).
ResetZoomIdempotentWitness ==
    /\ Len(images) = 2
    /\ currentImageIndex = 0
    /\ zoomLevel = minZoom /\ panX = 0 /\ panY = 0
    /\ isDragging
    /\ dragStartX = -350

-----------------------------------------------------------------------------
(* C13 *)

\* A delivery of the wire adapter to wiredImages, with data or with an error.
Resolution == QuerySucceeds(MaxImages, BOOLEAN) \/ QueryFails

ViewAtDefaults ==
    currentImageIndex = 0 /\ zoomLevel = minZoom /\ panX = 0 /\ panY = 0

\* C13 as stated: after any resolution that replaces the image set, whatever the
\* length of the new set, currentImageIndex = 0, zoomLevel = 1 and pan = (0, 0).
EveryReplacementResetsView ==
    [][Resolution => ViewAtDefaults']_vars

\* C13 as amended: after a resolution that replaces the image set by a non-empty
\* set, currentImageIndex = 0, zoomLevel = 1 and pan = (0, 0); a resolution that
\* leaves the set empty (no images, or a failure) leaves the index, the zoom and
\* the pan as they were.
NonEmptyReplacementResetsView ==
    [][Resolution =>
          IF Len(images') > 0
            THEN ViewAtDefaults'
            ELSE UNCHANGED <<currentImageIndex, zoomLevel, panX, panY>>]_vars

\* A two-image set has just arrived (nothing was done to it yet) while a drag
\* started on a zoomed and panned image is still open: the view is back at the
\* defaults.
NonEmptyReplacementWitness ==
    /\ Len(images) = 2
    /\ ViewAtDefaults
    /\ errorMessage = NoError
    /\ isDragging
    /\ dragStartX = 300
    /\ pending = <<>> /\ recordId = Null

-----------------------------------------------------------------------------
(* C14 *)

\* C14: zoom stepping saturates. ZoomIn sets zoomLevel to
\* min(zoomLevel + 0.25, 4) and ZoomOut to max(zoomLevel - 0.25, 1); at its
\* bound each changes no field of the component; isMaxZoom holds exactly when
\* zoomLevel = 4. (By induction on the ZoomIn steps, n presses from zoom 1 give
\* min(1 + 0.25 n, 4): 13 presses give 4.)
ZoomSteppingSaturates ==
    /\ [][ZoomIn =>
            /\ zoomLevel' = Min(zoomLevel + zoomStep, maxZoom)
            /\ (zoomLevel = maxZoom => fields' = fields)]_vars
    /\ [][ZoomOut =>
            /\ zoomLevel' = Max(zoomLevel - zoomStep, minZoom)
            /\ (zoomLevel = minZoom => fields' = fields)]_vars
    /\ [](isMaxZoom <=> zoomLevel = maxZoom)

\* The zoom is at its ceiling, twelve steps above the default, on the second
\* image of a set.
ZoomSteppingWitness ==
    /\ zoomLevel = maxZoom
    /\ isMaxZoom
    /\ currentImageIndex = 1
    /\ ~isDragging

-----------------------------------------------------------------------------
(* C15 *)

Clamp(v, lo, hi) == IF v < lo THEN lo ELSE IF v > hi THEN hi ELSE v

\* C15: a DragStart above minimum zoom records the anchor pointer - pan, and a
\* DragMove while dragging above minimum zoom sets each pan axis to
\* clamp(pointer - anchor, -100 * zoomLevel, 100 * zoomLevel) (zoomLevel is in
\* percent here, so the limit is zoomLevel itself). At zoom 2 with pan (0, 0),
\* DragStart at (50, 50) records the anchor (50, 50) and DragMove to (500, 500)
\* then gives pan (200, 200).
DragMoveClampsPan ==
    [][/\ \A p \in ViewPoints :
            (zoomLevel > minZoom /\ DragStartAt(p)) =>
                /\ isDragging'
                /\ dragStartX' = p[1] - panX
                /\ dragStartY' = p[2] - panY
       /\ \A p \in ViewPoints :
            (isDragging /\ zoomLevel > minZoom /\ DragMoveAt(p)) =>
                /\ panX' = Clamp(p[1] - dragStartX, -zoomLevel, zoomLevel)
                /\ panY' = Clamp(p[2] - dragStartY, -zoomLevel, zoomLevel)
       /\ (zoomLevel = 200 /\ panX = 0 /\ panY = 0 /\ DragStartAt(<<50, 50>>)) =>
                (dragStartX' = 50 /\ dragStartY' = 50)
       /\ (zoomLevel = 200 /\ isDragging /\ dragStartX = 50 /\ dragStartY = 50
              /\ DragMoveAt(<<500, 500>>)) =>
                (panX' = 200 /\ panY' = 200)]_vars

\* The end of the scenario: zoom 2, a drag anchored at (50, 50) from pan (0, 0),
\* the pointer moved to (500, 500), the pan at the ceiling (200, 200).
DragMoveClampsPanWitness ==
    /\ zoomLevel = 200
    /\ isDragging
    /\ dragStartX = 50 /\ dragStartY = 50
    /\ panX = 200 /\ panY = 200

-----------------------------------------------------------------------------
(* C16 *)

\* C16: an image render failure sets the error message and leaves the image
\* set, the source flag, currentImageIndex, the zoom and the pan unchanged;
\* Previous and Next invoked while that message is set change currentImageIndex
\* by the same rule as without it (one step, none at the boundary).
RenderFailureKeepsNavigation ==
    [][/\ ImageRenderFailure =>
            /\ errorMessage' = ImageErrorMessage
            /\ UNCHANGED <<images, hasParentCase, currentImageIndex, zoomLevel,
                           panX, panY>>
       /\ (errorMessage = ImageErrorMessage /\ NextImage) =>
            currentImageIndex' = IF currentImageIndex < Len(images) - 1
                                   THEN currentImageIndex + 1
                                   ELSE currentImageIndex
       /\ (errorMessage = ImageErrorMessage /\ Previous) =>
            currentImageIndex' = IF currentImageIndex > 0
                                   THEN currentImageIndex - 1
                                   ELSE currentImageIndex]_vars

\* The second image of two has just failed to render while zoomed and panned:
\* the message is set and the set, the index, the zoom and the pan are intact.
RenderFailureWitness ==
    /\ errorMessage = ImageErrorMessage
    /\ consoleErrors # <<>>
    /\ Len(images) = 2
    /\ currentImageIndex = 1
    /\ zoomLevel = 200 /\ panX = 200 /\ panY = 200

-----------------------------------------------------------------------------
(* C17 *)

\* The actions of the user on the viewer that change the zoom, the pan or the drag.
ViewAction ==
    \/ ZoomIn \/ ZoomOut \/ ResetZoom \/ Wheel
    \/ DragStart(Points) \/ DragMove(Points) \/ DragEnd \/ PointerLeave

\* Any action of the user.
UserAction == Previous \/ NextImage \/ ViewAction \/ ImageRenderFailure

\* C17: the image set and its source flag change only in a query resolution: no
\* user action (and no change of recordId) modifies images or hasParentCase;
\* the zoom, pan and drag actions and the render failure also leave
\* currentImageIndex unchanged.
OnlyResolutionChangesImages ==
    [][/\ (images' # images \/ hasParentCase' # hasParentCase) =>
              ~(UserAction \/ SetRecordId(RecordIds \cup {Null}, MaxPending))
       /\ (currentImageIndex' # currentImageIndex) =>
              ~(ViewAction \/ ImageRenderFailure)]_vars

\* After navigation to the last image, a zoom, a drag start and a render
\* failure, the three images delivered from the parent case are still there.
OnlyResolutionChangesImagesWitness ==
    /\ Len(images) = 3
    /\ hasParentCase
    /\ currentImageIndex = 2
    /\ zoomLevel = 150
    /\ isDragging
    /\ errorMessage = ImageErrorMessage

-----------------------------------------------------------------------------
(* C18 *)

\* C18: in every reachable Viewing state the enablement flags agree with the
\* no-op conditions of the actions: isFirstImage holds exactly when Previous
\* would change no field, isLastImage exactly when Next would change none,
\* isMaxZoom exactly when ZoomIn would leave zoomLevel unchanged, isMinZoom
\* exactly when ZoomOut would; with three images at index 0, isFirstImage is
\* true and isLastImage is false.
FlagsAgreeWithNoOps ==
    StateViewing =>
        /\ isFirstImage <=> ~ENABLED (Previous /\ fields' # fields)
        /\ isLastImage <=> ~ENABLED (NextImage /\ fields' # fields)
        /\ isMaxZoom <=> ~ENABLED (ZoomIn /\ zoomLevel' # zoomLevel)
        /\ isMinZoom <=> ~ENABLED (ZoomOut /\ zoomLevel' # zoomLevel)
        /\ (Len(images) = 3 /\ currentImageIndex = 0) =>
               (isFirstImage /\ ~isLastImage)

\* Viewing the first of three images at the zoom ceiling: Previous and ZoomIn
\* are no-ops and flagged, Next and ZoomOut are not.
FlagsAgreeWitness ==
    /\ StateViewing
    /\ Len(images) = 3
    /\ currentImageIndex = 0
    /\ isFirstImage /\ ~isLastImage
    /\ isMaxZoom /\ ~isMinZoom

-----------------------------------------------------------------------------
(* C19 *)

\* C19 as stated: DragStart at minimum zoom is a no-op (isDragging stays false,
\* the anchor unchanged), DragEnd and PointerLeave while dragging set isDragging
\* to false, and in every reachable state isDragging implies
\* zoomLevel > minZoom.
DraggingOnlyAboveMinZoom ==
    /\ [][(zoomLevel = minZoom /\ DragStart(ViewPoints)) =>
              (~isDragging' /\ UNCHANGED <<dragStartX, dragStartY>>)]_vars
    /\ [][(DragEnd \/ (isDragging /\ PointerLeave)) => ~isDragging']_vars
    /\ [](isDragging => zoomLevel > minZoom)

\* C19 as amended: DragStart at minimum zoom changes neither isDragging nor the
\* anchor; DragEnd and PointerLeave while dragging set isDragging to false;
\* isDragging becomes true only in a DragStart above minimum zoom and becomes
\* false only in a DragEnd or a PointerLeave (so it stays true through a
\* ZoomOut, a ResetZoom, a Previous/Next or a new image set that bring the zoom
\* back to the minimum); while the zoom is at the minimum a DragMove leaves the
\* pan alone.
DragFlagLifecycle ==
    [][/\ (zoomLevel = minZoom /\ DragStart(ViewPoints)) =>
              UNCHANGED <<isDragging, dragStartX, dragStartY>>
       /\ (DragEnd \/ (isDragging /\ PointerLeave)) => ~isDragging'
       /\ (~isDragging /\ isDragging') =>
              (zoomLevel > minZoom /\ DragStart(ViewPoints))
       /\ (isDragging /\ ~isDragging') => (DragEnd \/ PointerLeave)
       /\ (zoomLevel = minZoom /\ DragMove(ViewPoints)) =>
              UNCHANGED <<panX, panY>>]_vars

\* A drag was started at (500, 500) on the first image, zoomed and not panned;
\* Next then brought the zoom back to the minimum with the drag still open.
DragFlagLifecycleWitness ==
    /\ isDragging
    /\ zoomLevel = minZoom
    /\ currentImageIndex = 1
    /\ dragStartX = 500 /\ dragStartY = 500

-----------------------------------------------------------------------------
(* C20 *)

\* C20: the error message set by an image render failure persists across
\* Previous, Next, the zoom and the drag actions, so hasImages stays false from
\* the failure on; errorMessage is cleared only by a successful query
\* resolution, and only a resolution replaces the render-failure message.
RenderFailureMessagePersists ==
    [][/\ (errorMessage = ImageErrorMessage
             /\ (errorMessage' # ImageErrorMessage \/ hasImages')) =>
              ~(UserAction \/ SetRecordId(RecordIds \cup {Null}, MaxPending))
       /\ (errorMessage # NoError /\ (errorMessage' = NoError \/ hasImages')) =>
              ~(\/ UserAction \/ QueryFails
                \/ SetRecordId(RecordIds \cup {Null}, MaxPending))]_vars

\* Some steps after a render failure (the last handler logged nothing): the
\* user has moved to the second image, zoomed in and started a drag, and the
\* message is still set, so the viewer is not ready for display.
RenderFailureMessageWitness ==
    /\ errorMessage = ImageErrorMessage
    /\ consoleErrors = <<>>
    /\ ~hasImages
    /\ Len(images) = 2
    /\ currentImageIndex = 1
    /\ zoomLevel = 125
    /\ isDragging

=============================================================================
